---- MODULE Spec2Model ----
(***************************************************************************)
(* Model of the useAudioRecorder hook (src/hooks/use-audio.ts, the second  *)
(* definition, lines 187-574): the listen/record state machine, the        *)
(* silence timer, the pre-buffer ring and the recorder event handlers.     *)
(*                                                                         *)
(* React state is modelled in three layers, because the code reads it      *)
(* through closures: `state` is the value the setters have queued,         *)
(* `rendered` is the value captured by the callbacks of the last render    *)
(* (the ones recordingStartRef / recordingStopRef point to), and `loop` is *)
(* the value captured by the monitoring loop installed by the last effect  *)
(* run.  Refs are plain variables.                                         *)
(***************************************************************************)
EXTENDS Integers, Sequences, FiniteSets, TLC

\* ------------------------------------------------------------------ bounds
MaxRec == 2          \* main MediaRecorder instances created in one run
MaxSession == 1      \* device acquisitions (stream + context + analyser)
MaxTimer == 2        \* distinct timer ids
MaxCalls == 3        \* calls of the hook's functions made from outside
MaxPending == 1      \* calls suspended at an await at one time
MaxRapid == 2        \* startListening calls in flight at one time, in SessionSpec
MaxPre == 1          \* pre-buffer segments produced
MaxRing == 5         \* pre-buffer segments produced, in RingSpec
MaxChunk == 1        \* non-empty live chunks one recorder produces
silenceTimeout == 1  \* the hook's silenceTimeout, in clock ticks
MaxEvents == 4       \* lines in a response body given to translateText
MaxPerRead == 2      \* lines one reader.read() delivers
MaxProvider == 3     \* chunks the provider streams for one translation
MaxUtter == 3        \* clips the page starts to process
MaxClips == 2        \* recordings that hold a processAudio closure at once
MaxOps == 5          \* attempts of its operation a provider lets withRetry make

\* ------------------------------------------------------- program constants
RingSize == 4        \* use-audio.ts:279
MinBlobSize == 15000 \* part_000:84, the smallest blob processAudio accepts
MAX_RETRIES == 3     \* part_006:8
INITIAL_RETRY_DELAY == 1000  \* part_006:9

\* silenceThreshold is a parameter of the hook; the samples are taken around it.
silenceThreshold == 0
Levels == {silenceThreshold - 1, silenceThreshold, silenceThreshold + 1}

\* The byte sizes a non-empty chunk can have: half the minimum, or the minimum.
ChunkSizes == {MinBlobSize \div 2, MinBlobSize}

Recs == 1..MaxRec
Sessions == 1..(IF MaxRapid > MaxSession THEN MaxRapid ELSE MaxSession)
TimerIds == 1..MaxTimer

VARIABLES
  state,              \* useState values as queued by the setters
  rendered,           \* useState values captured by the last render's callbacks
  loop,               \* values captured by the running monitorAudio loop
  isProcessingRef,
  streamRef,          \* 0 = null, else the session whose stream it is
  audioContextRef,    \* 0 = null, else the session whose context it is
  analyserRef,        \* 0 = null, else the session whose analyser it is
  silenceTimeoutRef,  \* 0 = null, else a timer id (possibly already fired)
  audioChunksRef,
  preBufferRef,
  isPreBufferingRef,
  recorders,          \* the main MediaRecorder instances
  preRecorder,        \* the pre-buffer MediaRecorder
  timers,             \* pending setTimeout callbacks
  tracksLive,         \* sessions whose device tracks are not stopped
  ctxState,           \* state of each session's AudioContext
  pending,            \* calls suspended at an await, in call order
  preCount,           \* pre-buffer segments produced so far
  hist,               \* observation of the run (history variable)
  srv,                \* the translate route's stream producer (part_006)
  body,               \* the response body between the route and translateText
  tr,                 \* one translateText call (part_016)
  obs,                \* observation of the translation (history variable)
  page                \* the page: processAudio and what it sets (part_000)

refVars == <<isProcessingRef, streamRef, audioContextRef, analyserRef,
             silenceTimeoutRef, audioChunksRef, preBufferRef, isPreBufferingRef>>
envVars == <<recorders, preRecorder, timers, tracksLive, ctxState,
             pending, preCount>>
hookVars == <<state, rendered, loop, refVars, envVars, hist>>
pipeVars == <<srv, body, tr, obs, page>>
vars == <<hookVars, pipeVars>>

Min(S) == CHOOSE x \in S : \A y \in S : x <= y

\* A MediaRecorder: its state, its pending stop event, where its onstop handler
\* is, its stream, the non-empty chunks it produced, the stream of the
\* mediaRecorder its handlers' cleanup captured, and who stopped it.
\* stt: the processAudio call its onstop awaits has set the page's processingRef.
NoRecorder == [st |-> "unused", ev |-> "none", h |-> "idle", stream |-> 0, n |-> 0,
               cs |-> 0, by |-> "-", stt |-> FALSE]

HistInit ==
  [ev |-> "-",           \* what the last step did
   rec |-> 0,            \* the recorder the last step was about
   start |-> "none",     \* outcome of a startRecording call in the last step
   stop |-> "none",      \* outcome of a stopRecording call in the last step
   blob |-> <<>>,        \* chunks the last step handed to onRecordingComplete
   liveSize |-> 0,       \* bytes of the live chunks in that blob
   stt |-> FALSE,        \* processAudio went on to the speech-to-text request
   ringWas |-> <<>>,     \* for an onstop step: the ring when that recorder started
   ringAtStart |-> [r \in Recs |-> <<>>],  \* ring contents when r was started
   quiet |-> FALSE,      \* the last sample was below threshold
   quietFor |-> 0,       \* ticks since the first sample of the current quiet run
   everQuiet |-> FALSE,  \* some sample was below threshold
   calls |-> 0,          \* calls of the hook's functions made from outside
   onlyQuiet |-> FALSE,  \* from now on every sample is below threshold
   onlyLoud |-> FALSE,   \* from now on no sample is below threshold
   sources |-> 0,        \* source nodes connected to the analyser in analyserRef
   fired |-> FALSE]      \* a silence timer has fired and stopped a recording

HookInit ==
  /\ state = [isRecording |-> FALSE, isListening |-> FALSE, mediaRecorder |-> 0]
  /\ rendered = state
  /\ loop = [isRecording |-> FALSE, isListening |-> FALSE]
  /\ isProcessingRef = FALSE
  /\ streamRef = 0
  /\ audioContextRef = 0
  /\ analyserRef = 0
  /\ silenceTimeoutRef = 0
  /\ audioChunksRef = <<>>
  /\ preBufferRef = <<>>
  /\ isPreBufferingRef = FALSE
  /\ recorders = [r \in Recs |-> NoRecorder]
  /\ preRecorder = [st |-> "unused", stream |-> 0]
  /\ timers = {}
  /\ tracksLive = {}
  /\ ctxState = [s \in Sessions |-> "none"]
  /\ pending = <<>>
  /\ preCount = 0
  /\ hist = HistInit

\* No translation has been requested.
NoRoute == [status |-> "idle", provider |-> <<>>, next |-> 1, isThinkingPhase |-> FALSE,
            accumulatedContent |-> <<>>, firstChunk |-> TRUE, perChunk |-> FALSE,
            retry |-> [pc |-> "idle", retryCount |-> 0, calls |-> 0, errors |-> <<>>,
                       delays |-> <<>>, result |-> 0]]
NoBody == [queue |-> <<>>, end |-> "open"]
NoCall == [status |-> "idle", fullTranslation |-> <<>>]
NoObs == [input |-> <<>>, partials |-> <<>>, metrics |-> 0]

\* The page after its first render: the setup phase, nothing processed.
NoPage ==
  [pc |-> "idle", setup |-> TRUE, isInitialSetup |-> TRUE, processingRef |-> FALSE,
   isProcessing |-> FALSE, error |-> FALSE, translatedText |-> <<>>, messages |-> <<>>,
   rendered |-> [isInitialSetup |-> TRUE, translatedText |-> <<>>],
   clips |-> <<>>, ttsTimer |-> <<>>, ttsBusy |-> FALSE,
   seen |-> [utterances |-> 0, errors |-> 0, transcripts |-> 0, detections |-> 0,
             langCalls |-> 0, stt |-> "-", abandoned |-> FALSE, dropped |-> FALSE, tts |-> <<>>]]

Init ==
  /\ HookInit
  /\ srv = NoRoute
  /\ body = NoBody
  /\ tr = NoCall
  /\ obs = NoObs
  /\ page = NoPage

\* The transient fields of the observation are reset at every step.
Ev(h, e) == [h EXCEPT !.ev = e, !.rec = 0, !.start = "none", !.stop = "none",
                      !.blob = <<>>, !.ringWas = <<>>, !.liveSize = 0, !.stt = FALSE]

\* A step that is a call of one of the hook's functions from outside.
User(h) == [Ev(h, "-") EXCEPT !.calls = @ + 1]

\* The outcome of a call made by the monitoring loop or by the silence timer is
\* observed; a call the user makes leaves no mark.
Outcome(h, field, v) == IF h.ev = "-" THEN h ELSE [h EXCEPT ![field] = v]

\* The test of detectSilence with its branches exchanged.
SilentInverted(dB) == dB >= silenceThreshold

\* The test of detectSilence on one sample: dB < silenceThreshold.
Silent(dB) == dB < silenceThreshold

\* The samples the analyser can give.
Samples ==
  IF hist.onlyQuiet THEN {silenceThreshold - 1}
  ELSE IF hist.onlyLoud THEN {dB \in Levels : dB >= silenceThreshold}
  ELSE Levels

\* One loudness sample has been taken.
Sampled(h, dB) ==
  [h EXCEPT !.quiet = dB < silenceThreshold,
            !.everQuiet = @ \/ dB < silenceThreshold,
            !.quietFor = IF dB < silenceThreshold /\ h.quiet THEN h.quietFor ELSE 0]

\* A clearTimeout that cancels nothing.
clearTimeoutNothing(tm, id) == tm

\* clearTimeout(id) on the pending timers tm.
clearTimeout(tm, id) == {t \in tm : t.id # id}

\* A call suspended at an await: the function, the await it is at, the stream
\* of the mediaRecorder its closure captured and the context it is resuming.
Call(f, at, cs, ctx) == [f |-> f, at |-> at, cs |-> cs, ctx |-> ctx]
Without(q, i) == [j \in 1..(Len(q) - 1) |-> IF j < i THEN q[j] ELSE q[j + 1]]

\* HasSession, never finding the session in place.
HasSessionNever == FALSE
HasSession == streamRef # 0 /\ audioContextRef # 0 /\ analyserRef # 0
UnusedRecs == {r \in Recs : recorders[r].st = "unused"}
UnusedSessions == {s \in Sessions : ctxState[s] = "none"}
\* The sessions getUserMedia can still hand out when at most m are acquired.
Acquirable(m) == {s \in UnusedSessions : s <= m}
FreeTimerIds == {i \in TimerIds : i # silenceTimeoutRef /\ \A t \in timers : t.id # i}
ActiveRecs == {r \in Recs : recorders[r].st = "recording"}

\* A MediaRecorder stops by itself when the tracks of its stream end.
TracksStopped(recs, S) ==
  [r \in Recs |-> IF recs[r].st = "recording" /\ recs[r].stream \in S
                  THEN [recs[r] EXCEPT !.st = "inactive", !.ev = "stop"]
                  ELSE recs[r]]

\* mediaRecorder.stop(): the recorder is inactive at once, its stop event follows.
Stopped(recs, r) == [recs EXCEPT ![r].st = "inactive", ![r].ev = "stop"]

cleanupVars == <<silenceTimeoutRef, timers, audioContextRef, ctxState, streamRef,
                 analyserRef, tracksLive, preRecorder, recorders, state,
                 audioChunksRef, isProcessingRef>>

\* The stream of the mediaRecorder the callbacks of the last render capture.
ClosureStream == IF rendered.mediaRecorder = 0 THEN 0
                 ELSE recorders[rendered.mediaRecorder].stream

\* track.stop() on every track of the streams S.
StopTracks(live, S) == live \ S

\* cleanup(fullCleanup) when streamRef holds sr, audioContextRef holds ac, the
\* live tracks are live and the contexts are in states ctx, called from a
\* closure whose mediaRecorder has stream cs (0 when it is null), after the
\* caller has changed the recorders to recs, the queued state to st and the
\* pending timers to tm.
cleanupAt(sr, ac, live, ctx, fullCleanup, cs, recs, st, tm) ==
  LET S == IF fullCleanup THEN {sr, cs} \ {0} ELSE {}
  IN /\ silenceTimeoutRef' = 0
     /\ timers' = clearTimeout(tm, silenceTimeoutRef)
     /\ IF fullCleanup
        THEN /\ audioContextRef' = 0
             /\ ctxState' = [s \in Sessions |->
                               IF s = ac THEN "closed" ELSE ctx[s]]
             /\ streamRef' = 0
             /\ analyserRef' = 0
        ELSE /\ audioContextRef' = ac
             /\ ctxState' = ctx
             /\ streamRef' = sr
             /\ analyserRef' = analyserRef
     /\ tracksLive' = StopTracks(live, S)
     /\ preRecorder' = IF preRecorder.st = "recording" /\ preRecorder.stream \in S
                       THEN [preRecorder EXCEPT !.st = "flushing"]
                       ELSE preRecorder
     /\ recorders' = TracksStopped(recs, S)
     /\ state' = [st EXCEPT !.isRecording = FALSE, !.mediaRecorder = 0]
     /\ audioChunksRef' = <<>>
     /\ isProcessingRef' = FALSE

\* cleanup(fullCleanup) in the current state.
cleanup(fullCleanup, cs, recs, st, tm) ==
  cleanupAt(streamRef, audioContextRef, tracksLive, ctxState, fullCleanup, cs, recs, st,
            tm)

startVars == <<isProcessingRef, recorders, state, pending>>

\* The tail of startRecording: new MediaRecorder(stream s), start(250),
\* setMediaRecorder, setIsRecording(true), isProcessingRef = false.
NewRecorder(s, cs, hb) ==
  /\ UnusedRecs # {}
  /\ LET r == Min(UnusedRecs) IN
       /\ recorders' = [recorders EXCEPT ![r] =
             [st |-> "recording", ev |-> "none", h |-> "idle", stream |-> s,
              n |-> 0, cs |-> cs, by |-> "-", stt |-> FALSE]]
       /\ state' = [state EXCEPT !.mediaRecorder = r, !.isRecording = TRUE]
       /\ isProcessingRef' = FALSE
       /\ hist' = [Outcome(hb, "start", "started") EXCEPT
                     !.ringAtStart[r] = preBufferRef]

\* startRecording as the last render defined it, up to its first await.
startRecording(hb) ==
  IF isProcessingRef \/ rendered.isRecording
  THEN /\ UNCHANGED startVars
       /\ hist' = Outcome(hb, "start", "ignored")
  ELSE IF ~HasSession
  THEN /\ Len(pending) < MaxPending
       /\ isProcessingRef' = TRUE
       /\ pending' = Append(pending, Call("startRecording", "getUserMedia", ClosureStream, 0))
       /\ UNCHANGED <<recorders, state>>
       /\ hist' = Outcome(hb, "start", "await")
  ELSE /\ NewRecorder(streamRef, ClosureStream, hb)
       /\ UNCHANGED pending

\* stopRecording as the last render defined it.
stopRecording(hb, tm) ==
  IF isProcessingRef
  THEN /\ timers' = tm
       /\ UNCHANGED <<silenceTimeoutRef, audioContextRef, ctxState, streamRef,
                      analyserRef, tracksLive, preRecorder, recorders, state,
                      audioChunksRef, isProcessingRef>>
       /\ hist' = Outcome(hb, "stop", "ignored")
  ELSE IF rendered.mediaRecorder # 0 /\ recorders[rendered.mediaRecorder].st = "recording"
  THEN /\ isProcessingRef' = TRUE
       /\ recorders' = [Stopped(recorders, rendered.mediaRecorder) EXCEPT
                          ![rendered.mediaRecorder].by = "stopRecording"]
       /\ timers' = tm
       /\ UNCHANGED <<silenceTimeoutRef, audioContextRef, ctxState, streamRef,
                      analyserRef, tracksLive, preRecorder, state, audioChunksRef>>
       /\ hist' = Outcome(Outcome(hb, "stop", "stopped"), "rec", rendered.mediaRecorder)
  ELSE /\ cleanup(FALSE, ClosureStream, recorders, state, tm)
       /\ hist' = Outcome(hb, "stop", "cleanup")

detectVars == <<silenceTimeoutRef, timers, isProcessingRef, recorders, state,
                pending>>

\* detectSilence of a closure c on one sample dB.
detectSilence(c, dB) ==
  IF analyserRef = 0 \/ ~c.isListening
  THEN /\ UNCHANGED detectVars
       /\ hist' = Ev(hist, "-")
  ELSE IF Silent(dB)
  THEN /\ UNCHANGED startVars
       /\ IF silenceTimeoutRef = 0 /\ c.isRecording
          THEN /\ FreeTimerIds # {}
               /\ silenceTimeoutRef' = Min(FreeTimerIds)
               /\ timers' = timers \cup {[id |-> Min(FreeTimerIds),
                                          left |-> silenceTimeout,
                                          isRecording |-> c.isRecording]}
          ELSE UNCHANGED <<silenceTimeoutRef, timers>>
       /\ hist' = Ev(Sampled(hist, dB), "-")
  ELSE /\ silenceTimeoutRef' = 0
       /\ timers' = clearTimeout(timers, silenceTimeoutRef)
       /\ IF ~c.isRecording /\ c.isListening
          THEN startRecording(Ev(Sampled(hist, dB), "speechStart"))
          ELSE /\ UNCHANGED startVars
               /\ hist' = Ev(Sampled(hist, dB),
                             IF \E t \in timers : t.id = silenceTimeoutRef
                             THEN "cancel" ELSE "loud")

\* ---------------------------------------------------------------- actions

\* React commits the queued state: the callbacks are redefined.
Render ==
  /\ rendered # state
  /\ loop = [isRecording |-> rendered.isRecording, isListening |-> rendered.isListening]
  /\ rendered' = state
  /\ hist' = Ev(hist, "-")
  /\ UNCHANGED <<pipeVars, state, loop, refVars, envVars>>

\* The effect of the last render runs: the old loop is cancelled, and when
\* listening monitorAudio is called at once.
Effect ==
  /\ loop # [isRecording |-> rendered.isRecording, isListening |-> rendered.isListening]
  /\ loop' = [isRecording |-> rendered.isRecording, isListening |-> rendered.isListening]
  /\ IF rendered.isListening
     THEN \E dB \in Samples : detectSilence(loop', dB)
     ELSE /\ UNCHANGED detectVars
          /\ hist' = Ev(hist, "-")
  /\ UNCHANGED <<pipeVars, rendered, streamRef, audioContextRef, analyserRef, audioChunksRef,
                 preBufferRef, isPreBufferingRef, preRecorder, tracksLive, ctxState,
                 preCount>>

\* An animation frame of the running loop.
Frame ==
  /\ loop.isListening
  /\ \E dB \in Samples : detectSilence(loop, dB)
  /\ UNCHANGED <<pipeVars, rendered, loop, streamRef, audioContextRef, analyserRef,
                 audioChunksRef, preBufferRef, isPreBufferingRef, preRecorder,
                 tracksLive, ctxState, preCount>>

\* The clock advances by one tick.
Tick ==
  /\ \/ \E t \in timers : t.left > 0
     \/ hist.quiet /\ hist.quietFor < silenceTimeout
  /\ timers' = {[t EXCEPT !.left = IF t.left > 0 THEN t.left - 1 ELSE 0] : t \in timers}
  /\ hist' = [Ev(hist, "-") EXCEPT
                !.quietFor = IF hist.quiet /\ hist.quietFor < silenceTimeout
                             THEN hist.quietFor + 1 ELSE hist.quietFor]
  /\ UNCHANGED <<pipeVars, state, rendered, loop, refVars, recorders, preRecorder, tracksLive,
                 ctxState, pending, preCount>>

\* The silence timer expires and its callback runs.
TimerFire ==
  \E t \in timers :
    /\ t.left = 0
    /\ IF t.isRecording
       THEN stopRecording([Ev(hist, "silenceStop") EXCEPT
                             !.fired = @ \/ (~isProcessingRef
                                              /\ rendered.mediaRecorder # 0
                                              /\ recorders[rendered.mediaRecorder].st
                                                   = "recording")],
                          timers \ {t})
       ELSE /\ timers' = timers \ {t}
            /\ UNCHANGED <<silenceTimeoutRef, audioContextRef, ctxState, streamRef,
                           analyserRef, tracksLive, preRecorder, recorders, state,
                           audioChunksRef, isProcessingRef>>
            /\ hist' = Ev(hist, "-")
    /\ UNCHANGED <<pipeVars, rendered, loop, preBufferRef, isPreBufferingRef, pending, preCount>>

\* The user (or a caller of the hook) calls startRecording.
ManualStartRecording ==
  /\ hist.calls < MaxCalls
  /\ startRecording(User(hist))
  /\ UNCHANGED <<pipeVars, rendered, loop, streamRef, audioContextRef, analyserRef,
                 silenceTimeoutRef, audioChunksRef, preBufferRef, isPreBufferingRef,
                 preRecorder, timers, tracksLive, ctxState, preCount>>

\* startPreBuffering, called with the stream of session s just stored in streamRef.
startPreBuffering(s) ==
  IF isPreBufferingRef
  THEN UNCHANGED <<isPreBufferingRef, preRecorder>>
  ELSE /\ isPreBufferingRef' = TRUE
       /\ preRecorder' = [st |-> "recording", stream |-> s]

\* getUserMedia of a suspended startRecording call resolves: the session is set
\* up, pre-buffering is started and the recorder is created.
StartRecordingAcquired ==
  \E i \in 1..Len(pending) :
    /\ pending[i].f = "startRecording"
    /\ Acquirable(MaxSession) # {}
    /\ LET s == Min(Acquirable(MaxSession)) IN
         /\ streamRef' = s
         /\ audioContextRef' = s
         /\ analyserRef' = s
         /\ tracksLive' = tracksLive \cup {s}
         /\ ctxState' = [ctxState EXCEPT ![s] = "running"]
         /\ startPreBuffering(s)
         /\ NewRecorder(s, pending[i].cs, [Ev(hist, "-") EXCEPT !.sources = 1])
    /\ pending' = Without(pending, i)
    /\ UNCHANGED <<pipeVars, rendered, loop, silenceTimeoutRef, audioChunksRef, preBufferRef,
                   timers, preCount>>

\* getUserMedia of a suspended startRecording call rejects: catch, cleanup(true).
StartRecordingFailed ==
  \E i \in 1..Len(pending) :
    /\ pending[i].f = "startRecording"
    /\ cleanup(TRUE, pending[i].cs, recorders, state, timers)
    /\ pending' = Without(pending, i)
    /\ hist' = Ev(hist, "-")
    /\ UNCHANGED <<pipeVars, rendered, loop, preBufferRef, isPreBufferingRef,
                   preCount>>

\* The user (or a caller of the hook) calls stopRecording.
ManualStopRecording ==
  /\ hist.calls < MaxCalls
  /\ stopRecording(User(hist), timers)
  /\ UNCHANGED <<pipeVars, rendered, loop, preBufferRef, isPreBufferingRef, pending, preCount>>

\* startListening up to its first await (or to its end when nothing is awaited),
\* with at most p calls suspended.
StartListeningUpTo(p) ==
  /\ hist.calls < MaxCalls
  /\ IF ~HasSession
     THEN /\ Len(pending) < p
          /\ pending' = Append(pending, Call("startListening", "getUserMedia", ClosureStream, 0))
          /\ UNCHANGED state
     ELSE IF ctxState[audioContextRef] = "suspended"
     THEN /\ Len(pending) < p
          /\ pending' = Append(pending, Call("startListening", "resume", ClosureStream,
                                              audioContextRef))
          /\ UNCHANGED state
     ELSE /\ state' = [state EXCEPT !.isListening = TRUE]
          /\ UNCHANGED pending
  /\ hist' = User(hist)
  /\ UNCHANGED <<pipeVars, rendered, loop, refVars, recorders, preRecorder, timers, tracksLive,
                 ctxState, preCount>>

StartListening == StartListeningUpTo(MaxPending)

\* getUserMedia of a suspended startListening call resolves, with at most m
\* sessions acquired.
StartListeningAcquiredUpTo(m) ==
  \E i \in 1..Len(pending) :
    /\ pending[i].f = "startListening"
    /\ pending[i].at = "getUserMedia"
    /\ Acquirable(m) # {}
    /\ LET s == Min(Acquirable(m)) IN
         /\ streamRef' = s
         /\ audioContextRef' = s
         /\ analyserRef' = s
         /\ tracksLive' = tracksLive \cup {s}
         /\ ctxState' = [ctxState EXCEPT ![s] = "running"]
    /\ state' = [state EXCEPT !.isListening = TRUE]
    /\ pending' = Without(pending, i)
    /\ hist' = [Ev(hist, "-") EXCEPT !.sources = 1]
    /\ UNCHANGED <<pipeVars, rendered, loop, isProcessingRef, silenceTimeoutRef, audioChunksRef,
                   preBufferRef, isPreBufferingRef, recorders, preRecorder, timers,
                   preCount>>

StartListeningAcquired == StartListeningAcquiredUpTo(MaxSession)

\* audioContext.resume() of a suspended startListening call settles.
StartListeningResumed ==
  \E i \in 1..Len(pending) :
    /\ pending[i].f = "startListening"
    /\ pending[i].at = "resume"
    /\ IF ctxState[pending[i].ctx] = "closed" \/ analyserRef = 0 \/ audioContextRef = 0
       THEN /\ cleanup(TRUE, pending[i].cs, recorders, state, timers)
            /\ hist' = Ev(hist, "-")
       ELSE /\ ctxState' = [ctxState EXCEPT ![pending[i].ctx] = "running"]
            /\ state' = [state EXCEPT !.isListening = TRUE]
            /\ hist' = [Ev(hist, "-") EXCEPT !.sources = @ + 1]
            /\ UNCHANGED <<silenceTimeoutRef, timers, audioContextRef, streamRef,
                           analyserRef, tracksLive, preRecorder, recorders,
                           audioChunksRef, isProcessingRef>>
    /\ pending' = Without(pending, i)
    /\ UNCHANGED <<pipeVars, rendered, loop, preBufferRef, isPreBufferingRef,
                   preCount>>

\* getUserMedia of a suspended startListening call rejects: catch, cleanup(true).
StartListeningFailed ==
  \E i \in 1..Len(pending) :
    /\ pending[i].f = "startListening"
    /\ pending[i].at = "getUserMedia"
    /\ cleanup(TRUE, pending[i].cs, recorders, state, timers)
    /\ pending' = Without(pending, i)
    /\ hist' = Ev(hist, "-")
    /\ UNCHANGED <<pipeVars, rendered, loop, preBufferRef, isPreBufferingRef,
                   preCount>>

\* getUserMedia of a suspended startListening call resolves and the stream and
\* the context are stored, but building the audio graph throws: catch,
\* cleanup(true).  At most m sessions are acquired.
StartListeningSetupFailedUpTo(m) ==
  \E i \in 1..Len(pending) :
    /\ pending[i].f = "startListening"
    /\ pending[i].at = "getUserMedia"
    /\ Acquirable(m) # {}
    /\ LET s == Min(Acquirable(m)) IN
         cleanupAt(s, s, tracksLive \cup {s}, [ctxState EXCEPT ![s] = "running"], TRUE,
                   pending[i].cs, recorders, state, timers)
    /\ pending' = Without(pending, i)
    /\ hist' = Ev(hist, "-")
    /\ UNCHANGED <<pipeVars, rendered, loop, preBufferRef, isPreBufferingRef,
                   preCount>>

StartListeningSetupFailed == StartListeningSetupFailedUpTo(MaxSession)

\* stopListening as the last render defined it.  createMediaStreamSource throws
\* on a null stream, which skips the rest of the function.  The source node it
\* disconnects is one it has just created, which was never connected.
StopListening ==
  /\ hist.calls < MaxCalls
  /\ recorders' = IF /\ rendered.isRecording
                     /\ rendered.mediaRecorder # 0
                     /\ recorders[rendered.mediaRecorder].st = "recording"
                  THEN Stopped(recorders, rendered.mediaRecorder)
                  ELSE recorders
  /\ state' = [state EXCEPT !.isListening = FALSE]
  /\ ctxState' = [s \in Sessions |->
                    IF s = audioContextRef /\ streamRef # 0 /\ ctxState[s] = "running"
                    THEN "suspending" ELSE ctxState[s]]
  /\ IF audioContextRef # 0 /\ streamRef = 0
     THEN UNCHANGED <<silenceTimeoutRef, timers>>
     ELSE /\ silenceTimeoutRef' = 0
          /\ timers' = clearTimeout(timers, silenceTimeoutRef)
  /\ hist' = User(hist)
  /\ UNCHANGED <<pipeVars, rendered, loop, isProcessingRef, streamRef, audioContextRef,
                 analyserRef, audioChunksRef, preBufferRef, isPreBufferingRef,
                 preRecorder, tracksLive, pending, preCount>>

\* The promise of audioContext.suspend() resolves.
ContextSuspended ==
  \E s \in Sessions :
    /\ ctxState[s] = "suspending"
    /\ ctxState' = [ctxState EXCEPT ![s] = "suspended"]
    /\ hist' = Ev(hist, "-")
    /\ UNCHANGED <<pipeVars, state, rendered, loop, refVars, recorders, preRecorder, timers,
                   tracksLive, pending, preCount>>

\* recorder.ondataavailable of a main recorder (every 250 ms while it records).
RecorderData ==
  \E r \in ActiveRecs : \E nonEmpty \in BOOLEAN :
    /\ IF nonEmpty
       THEN /\ recorders[r].n < MaxChunk
            /\ audioChunksRef' = Append(audioChunksRef, <<r, recorders[r].n + 1>>)
            /\ recorders' = [recorders EXCEPT ![r].n = @ + 1]
            /\ hist' = Ev(hist, "-")
       ELSE /\ UNCHANGED <<audioChunksRef, recorders>>
            /\ hist' = Ev(hist, "-")
    /\ UNCHANGED <<pipeVars, state, rendered, loop, isProcessingRef, streamRef, audioContextRef,
                   analyserRef, silenceTimeoutRef, preBufferRef, isPreBufferingRef,
                   preRecorder, timers, tracksLive, ctxState, pending, preCount>>

\* A ring that drops the newest segment instead of the oldest.
RingPushDropNewest(ring, seg) ==
  IF Len(ring) + 1 > RingSize THEN ring ELSE Append(ring, seg)

\* The ring after ondataavailable of the pre-buffer recorder pushed segment seg.
RingPush(ring, seg) ==
  IF Len(ring) + 1 > RingSize THEN Tail(Append(ring, seg)) ELSE Append(ring, seg)

\* recorder.ondataavailable of the pre-buffer recorder (every 250 ms, and once
\* more when it stops).
PreBufferDataUpTo(m) ==
  \E nonEmpty \in BOOLEAN :
    /\ preRecorder.st \in {"recording", "flushing"}
    /\ preRecorder' = IF preRecorder.st = "flushing"
                      THEN [preRecorder EXCEPT !.st = "inactive"]
                      ELSE preRecorder
    /\ IF nonEmpty
       THEN /\ preCount < m
            /\ preCount' = preCount + 1
            /\ preBufferRef' = RingPush(preBufferRef, <<0, preCount + 1>>)
            /\ hist' = Ev(hist, "-")
       ELSE /\ UNCHANGED <<preCount, preBufferRef>>
            /\ hist' = Ev(hist, "-")
    /\ UNCHANGED <<pipeVars, state, rendered, loop, isProcessingRef, streamRef, audioContextRef,
                   analyserRef, silenceTimeoutRef, audioChunksRef, isPreBufferingRef,
                   recorders, timers, tracksLive, ctxState, pending>>

PreBufferData == PreBufferDataUpTo(MaxPre)

\* The chunks onstop puts into the blob.
allChunks(ring, chunks) == ring \o chunks

RECURSIVE SumFrom(_, _)
\* The bytes of the chunks at positions i.. of a blob whose chunks have sizes sz.
SumFrom(sz, i) == IF i > Len(sz) THEN 0 ELSE sz[i] + SumFrom(sz, i + 1)

\* The catch and the finally block of processAudio.
catch(pg) == [pg EXCEPT !.error = TRUE, !.seen.errors = @ + 1]
\* finally, leaving processingRef set.
finallyKeepsRef(pg) == [pg EXCEPT !.isProcessing = FALSE, !.pc = "idle"]
finally(pg) == [pg EXCEPT !.processingRef = FALSE, !.isProcessing = FALSE, !.pc = "idle"]

\* The page's processingRef: a processAudio call is between its size check and
\* its finally block.
processingRef == \E r \in Recs : recorders[r].h = "awaiting" /\ recorders[r].stt

\* processAudio up to its first await: TRUE when it goes on to the
\* speech-to-text request, FALSE when it returns at once.
processAudio(size) ==
  IF processingRef THEN FALSE
  ELSE IF size < MinBlobSize THEN FALSE
  ELSE TRUE

\* The stop event of recorder r: its last dataavailable, then onstop up to the
\* await of onRecordingComplete, or to its end when there is nothing to hand over.
RecorderStop ==
  \E r \in Recs : \E last \in BOOLEAN :
    /\ recorders[r].ev = "stop"
    /\ last => recorders[r].n < MaxChunk
    /\ LET chunks == IF last THEN Append(audioChunksRef, <<r, recorders[r].n + 1>>)
                     ELSE audioChunksRef
           h1 == [Ev(hist, "onstop") EXCEPT
                    !.rec = r, !.ringWas = hist.ringAtStart[r], !.ringAtStart[r] = <<>>]
           recs1 == [recorders EXCEPT ![r].ev = "none",
                                      ![r].n = IF last THEN @ + 1 ELSE @]
           st1 == [state EXCEPT !.isRecording = FALSE]
       IN IF Len(chunks) > 0 \/ Len(preBufferRef) > 0
          THEN /\ \E sz \in [1..Len(allChunks(preBufferRef, chunks)) -> ChunkSizes] :
                    /\ hist' = [h1 EXCEPT !.blob = allChunks(preBufferRef, chunks),
                                          !.liveSize = SumFrom(sz, Len(preBufferRef) + 1),
                                          !.stt = processAudio(SumFrom(sz, 1))]
                    /\ recorders' = [recs1 EXCEPT ![r].h = "awaiting",
                                                  ![r].stt = processAudio(SumFrom(sz, 1))]
                    /\ page' = IF processAudio(SumFrom(sz, 1))
                               THEN [page EXCEPT !.processingRef = TRUE,
                                                 !.isProcessing = TRUE,
                                                 !.error = FALSE]
                               ELSE page
               /\ audioChunksRef' = chunks
               /\ state' = st1
               /\ UNCHANGED <<preBufferRef, silenceTimeoutRef, timers, audioContextRef,
                              ctxState, streamRef, analyserRef, tracksLive, preRecorder,
                              isProcessingRef>>
          ELSE /\ hist' = h1
               /\ preBufferRef' = <<>>
               /\ cleanup(FALSE, recorders[r].cs, [recs1 EXCEPT ![r].h = "done", ![r].n = 0, ![r].cs = 0,
                                          ![r].by = "-", ![r].stt = FALSE], st1, timers)
               /\ UNCHANGED page
    /\ UNCHANGED <<srv, body, tr, obs, rendered, loop, isPreBufferingRef, pending,
                   preCount>>

\* onRecordingComplete has settled: processAudio returned at one of its
\* guards, or its requests went through, or one of them failed and its catch
\* and finally blocks ran; then the rest of onstop.
RecorderStopResume ==
  \E r \in Recs : \E failed \in BOOLEAN :
    /\ recorders[r].h = "awaiting"
    /\ failed => recorders[r].stt
    /\ preBufferRef' = <<>>
    /\ cleanup(FALSE, recorders[r].cs, [recorders EXCEPT ![r].h = "done", ![r].n = 0, ![r].cs = 0,
                                          ![r].by = "-", ![r].stt = FALSE], state, timers)
    /\ hist' = Ev(hist, IF failed THEN "failed" ELSE "-")
    /\ page' = IF failed THEN finally(catch(page))
               ELSE IF recorders[r].stt THEN finally(page)
               ELSE page
    /\ UNCHANGED <<srv, body, tr, obs, rendered, loop, isPreBufferingRef, pending,
                   preCount>>

\* The error event of a recording recorder: onerror runs cleanup(true); the
\* recorder is inactive and its stop event follows.
RecorderError ==
  \E r \in ActiveRecs :
    /\ cleanup(TRUE, recorders[r].cs, Stopped(recorders, r), state, timers)
    /\ hist' = Ev(hist, "-")
    /\ UNCHANGED <<pipeVars, rendered, loop, preBufferRef, isPreBufferingRef, pending, preCount>>

Next ==
  \/ Render
  \/ Effect
  \/ Frame
  \/ Tick
  \/ TimerFire
  \/ ManualStartRecording
  \/ StartRecordingAcquired
  \/ StartRecordingFailed
  \/ ManualStopRecording
  \/ StartListening
  \/ StartListeningAcquired
  \/ StartListeningResumed
  \/ StartListeningFailed
  \/ StartListeningSetupFailed
  \/ StopListening
  \/ ContextSuspended
  \/ RecorderData
  \/ PreBufferData
  \/ RecorderStop
  \/ RecorderStopResume
  \/ RecorderError

Spec == Init /\ [][Next]_vars

\* The pre-buffer in isolation: one manually started session whose pre-buffer
\* recorder produces enough segments to fill the ring and evict from it.
RingData == PreBufferDataUpTo(MaxRing)

RingNext ==
  \/ Render
  \/ ManualStartRecording
  \/ StartRecordingAcquired
  \/ ManualStopRecording
  \/ RecorderData
  \/ RingData
  \/ RecorderStop
  \/ RecorderStopResume

RingSpec == Init /\ [][RingNext]_vars

\* startListening called again before the device acquisition of an earlier call
\* has resolved.
RapidStartListening == StartListeningUpTo(MaxRapid)
RapidListeningAcquired == StartListeningAcquiredUpTo(MaxRapid)
RapidListeningSetupFailed == StartListeningSetupFailedUpTo(MaxRapid)

SessionNext ==
  \/ Render
  \/ Effect
  \/ Frame
  \/ Tick
  \/ TimerFire
  \/ RapidStartListening
  \/ RapidListeningAcquired
  \/ RapidListeningSetupFailed
  \/ StartListeningResumed
  \/ StartListeningFailed
  \/ StopListening
  \/ ContextSuspended
  \/ RecorderData
  \/ RecorderStop
  \/ RecorderStopResume

SessionSpec == Init /\ [][SessionNext]_vars

\* The room falls silent for good: every later sample is below the threshold.
GoQuiet ==
  /\ ~hist.onlyQuiet
  /\ hist' = [Ev(hist, "-") EXCEPT !.onlyQuiet = TRUE]
  /\ UNCHANGED <<pipeVars, state, rendered, loop, refVars, envVars>>

\* Voice-activated use as the page drives it: the user starts listening and the
\* monitoring loop starts and stops the recordings.  Once the room is silent
\* nothing but the hook's own steps happens.
QuietNext ==
  \/ Render
  \/ Effect
  \/ Frame
  \/ Tick
  \/ TimerFire
  \/ RecorderData
  \/ RecorderStop
  \/ RecorderStopResume
  \/ StartListeningAcquired
  \/ (~hist.onlyQuiet /\ StartListening)
  \/ GoQuiet

\* React renders and runs effects, animation frames and timers are delivered,
\* time passes, and recorder events and settled promises are dispatched.
Fairness ==
  /\ WF_vars(Render)
  /\ WF_vars(Effect)
  /\ WF_vars(Frame)
  /\ WF_vars(Tick)
  /\ WF_vars(TimerFire)
  /\ WF_vars(RecorderStop)
  /\ WF_vars(RecorderStopResume)
  /\ WF_vars(StartListeningAcquired)

FairSpec == Init /\ [][QuietNext]_vars /\ Fairness

\* Somebody starts to speak and keeps speaking: every later sample is at or
\* above the threshold.
GoLoud ==
  /\ ~hist.onlyLoud
  /\ hist' = [Ev(hist, "-") EXCEPT !.onlyLoud = TRUE]
  /\ UNCHANGED <<pipeVars, state, rendered, loop, refVars, envVars>>

\* Voice-activated use in a room where the speech, once it has started, does
\* not pause any more: nothing but the hook's own steps happens after that.
LoudNext ==
  \/ Render
  \/ Effect
  \/ Frame
  \/ Tick
  \/ TimerFire
  \/ RecorderData
  \/ RecorderStop
  \/ RecorderStopResume
  \/ StartListeningAcquired
  \/ (~hist.onlyLoud /\ StartListening)
  \/ GoLoud

LoudSpec == Init /\ [][LoudNext]_vars /\ Fairness

\* ------------------------------------------------- translateText (part_016)
\* Text is a sequence of fragments; a line of the body is what translateText
\* makes of it: a data line with JSON holding content, the [DONE] data line, a
\* data line with JSON holding metrics, a data line that is not JSON, or a line
\* that does not start with "data: ".
ContentLine(t) == [k |-> "content", text |-> t]
DoneLine == [k |-> "done", text |-> <<>>]
MetricsLine == [k |-> "metrics", text |-> <<>>]
BadLine == [k |-> "bad", text |-> <<>>]
OtherLine == [k |-> "other", text |-> <<>>]
ErrorLine == [k |-> "error", text |-> <<>>]

Lines == {ContentLine(<<"x">>), ContentLine(<<"y">>), DoneLine, MetricsLine, BadLine,
          OtherLine}

\* The event sequence of the worked example: Hel, lo, <think>, ignored,
\* </think>, " world", [DONE].
ExampleEvents ==
  <<ContentLine(<<"Hel">>), ContentLine(<<"lo">>), ContentLine(<<"<thi", "nk>">>),
    ContentLine(<<"ignored">>), ContentLine(<<"</thi", "nk>">>),
    ContentLine(<<" world">>), DoneLine>>

\* The bodies a translateText call is given.
Bodies == UNION {[1..n -> Lines] : n \in 0..MaxEvents} \cup {ExampleEvents}

RECURSIVE processLinesPastSentinel(_, _)
\* processLines, without the return at the [DONE] line: the rest of the chunk
\* is still processed.
processLinesPastSentinel(c, lines) ==
  IF lines = <<>> THEN c
  ELSE LET line == Head(lines) IN
       IF line.k = "done"
       THEN processLinesPastSentinel([c EXCEPT !.returned = TRUE], Tail(lines))
       ELSE IF line.k = "content" /\ line.text # <<>>
       THEN processLinesPastSentinel(
              [c EXCEPT !.fullTranslation = @ \o line.text,
                        !.partials = Append(@, c.fullTranslation \o line.text)],
              Tail(lines))
       ELSE IF line.k = "metrics"
       THEN processLinesPastSentinel([c EXCEPT !.metrics = @ + 1], Tail(lines))
       ELSE processLinesPastSentinel(c, Tail(lines))

RECURSIVE processLinesStopAtBad(_, _)
\* processLines, with the JSON.parse error leaving the for loop: the lines
\* after a malformed line of the chunk are not processed.
processLinesStopAtBad(c, lines) ==
  IF lines = <<>> \/ c.returned THEN c
  ELSE LET line == Head(lines) IN
       IF line.k = "done"
       THEN [c EXCEPT !.returned = TRUE]
       ELSE IF line.k = "bad"
       THEN c
       ELSE IF line.k = "content" /\ line.text # <<>>
       THEN processLinesStopAtBad(
              [c EXCEPT !.fullTranslation = @ \o line.text,
                        !.partials = Append(@, c.fullTranslation \o line.text)],
              Tail(lines))
       ELSE IF line.k = "metrics"
       THEN processLinesStopAtBad([c EXCEPT !.metrics = @ + 1], Tail(lines))
       ELSE processLinesStopAtBad(c, Tail(lines))

RECURSIVE processLinesMetricsAsPartial(_, _)
\* processLines, with a metrics line also surfaced through onPartial.
processLinesMetricsAsPartial(c, lines) ==
  IF lines = <<>> \/ c.returned THEN c
  ELSE LET line == Head(lines) IN
       IF line.k = "done"
       THEN [c EXCEPT !.returned = TRUE]
       ELSE IF line.k = "content" /\ line.text # <<>>
       THEN processLinesMetricsAsPartial(
              [c EXCEPT !.fullTranslation = @ \o line.text,
                        !.partials = Append(@, c.fullTranslation \o line.text)],
              Tail(lines))
       ELSE IF line.k = "metrics"
       THEN processLinesMetricsAsPartial(
              [c EXCEPT !.metrics = @ + 1, !.partials = Append(@, c.fullTranslation)],
              Tail(lines))
       ELSE processLinesMetricsAsPartial(c, Tail(lines))

RECURSIVE processLinesReplaces(_, _)
\* processLines, with the content of an event replacing the accumulated text
\* instead of being appended to it.
processLinesReplaces(c, lines) ==
  IF lines = <<>> \/ c.returned THEN c
  ELSE LET line == Head(lines) IN
       IF line.k = "done"
       THEN [c EXCEPT !.returned = TRUE]
       ELSE IF line.k = "content" /\ line.text # <<>>
       THEN processLinesReplaces(
              [c EXCEPT !.fullTranslation = line.text,
                        !.partials = Append(@, line.text)],
              Tail(lines))
       ELSE IF line.k = "metrics"
       THEN processLinesReplaces([c EXCEPT !.metrics = @ + 1], Tail(lines))
       ELSE processLinesReplaces(c, Tail(lines))

RECURSIVE processLines(_, _)
\* The for loop over the lines of one decoded chunk, from the state c of the
\* call: c.fullTranslation, the callbacks made, and whether it has returned.
processLines(c, lines) ==
  IF lines = <<>> \/ c.returned THEN c
  ELSE LET line == Head(lines) IN
       IF line.k = "done"
       THEN [c EXCEPT !.returned = TRUE]
       ELSE IF line.k = "content" /\ line.text # <<>>
       THEN processLines([c EXCEPT !.fullTranslation = @ \o line.text,
                                   !.partials = Append(@, c.fullTranslation \o line.text)],
                         Tail(lines))
       ELSE IF line.k = "metrics"
       THEN processLines([c EXCEPT !.metrics = @ + 1], Tail(lines))
       ELSE processLines(c, Tail(lines))

\* translateText is called: the request is sent.
Translate ==
  /\ tr.status = "idle"
  /\ tr' = [tr EXCEPT !.status = "fetching"]
  /\ UNCHANGED <<hookVars, srv, body, obs, page>>

\* fetch settles: a response with a body, a response that is not ok, a response
\* without a body, or a rejection.
Respond ==
  /\ tr.status = "fetching"
  /\ srv.status # "waiting"
  /\ \E outcome \in (CASE srv.status = "idle" -> {"ok", "notOk", "noBody", "rejected"}
                      [] srv.status = "failed" -> {"notOk", "rejected"}
                      [] OTHER -> {"ok", "rejected"}) :
       tr' = [tr EXCEPT !.status = IF outcome = "ok" THEN "reading" ELSE "rejected"]
  /\ UNCHANGED <<hookVars, srv, body, obs, page>>

\* reader.read() resolves with a chunk of at most MaxPerRead lines, and the
\* lines of the chunk are processed; the page's onPartial sets translatedText.
Read ==
  /\ tr.status = "reading"
  /\ body.end # "errored"
  /\ \E n \in 1..MaxPerRead :
       /\ n <= Len(body.queue)
       /\ LET c == processLines([fullTranslation |-> tr.fullTranslation,
                                 partials |-> obs.partials,
                                 metrics |-> obs.metrics,
                                 returned |-> FALSE],
                                SubSeq(body.queue, 1, n))
          IN /\ tr' = [status |-> IF c.returned THEN "resolved" ELSE "reading",
                       fullTranslation |-> c.fullTranslation]
             /\ obs' = [obs EXCEPT !.partials = c.partials, !.metrics = c.metrics]
             /\ page' = [page EXCEPT !.translatedText =
                          IF c.partials # obs.partials
                          THEN c.partials[Len(c.partials)] ELSE @]
       /\ body' = [body EXCEPT !.queue = SubSeq(body.queue, n + 1, Len(body.queue))]
  /\ UNCHANGED <<hookVars, srv>>

\* ReadDone, returning an empty string instead of fullTranslation.
ReadDoneDropsText ==
  /\ tr.status = "reading"
  /\ body.end = "closed"
  /\ body.queue = <<>>
  /\ tr' = [status |-> "resolved", fullTranslation |-> <<>>]
  /\ UNCHANGED <<hookVars, srv, body, obs, page>>

\* reader.read() resolves with done: the loop ends and fullTranslation is returned.
ReadDone ==
  /\ tr.status = "reading"
  /\ body.end = "closed"
  /\ body.queue = <<>>
  /\ tr' = [tr EXCEPT !.status = "resolved"]
  /\ UNCHANGED <<hookVars, srv, body, obs, page>>

\* reader.read() rejects: the error is rethrown.
ReadError ==
  /\ tr.status = "reading"
  /\ body.end = "errored"
  /\ tr' = [tr EXCEPT !.status = "rejected"]
  /\ UNCHANGED <<hookVars, srv, body, obs, page>>

\* The body ends: the stream is closed, or the connection breaks.
BodyEnds ==
  /\ srv.status = "idle"
  /\ tr.status \in {"fetching", "reading"}
  /\ body.end = "open"
  /\ \E e \in {"closed", "errored"} : body' = [body EXCEPT !.end = e]
  /\ UNCHANGED <<hookVars, srv, tr, obs, page>>

\* translateText on an arbitrary response body.
StreamInit ==
  /\ HookInit
  /\ srv = NoRoute
  /\ tr = NoCall
  /\ page = NoPage
  /\ \E b \in Bodies :
       /\ body = [queue |-> b, end |-> "open"]
       /\ obs = [NoObs EXCEPT !.input = b]

StreamNext ==
  \/ Translate
  \/ Respond
  \/ Read
  \/ ReadDone
  \/ ReadError
  \/ BodyEnds

\* fetch settles, reads settle, and the body eventually ends or breaks.
StreamFairness ==
  /\ WF_vars(Translate)
  /\ WF_vars(Respond)
  /\ WF_vars(Read)
  /\ WF_vars(ReadDone)
  /\ WF_vars(ReadError)
  /\ WF_vars(BodyEnds)

StreamSpec == StreamInit /\ [][StreamNext]_vars /\ StreamFairness

\* What the for loop makes of the first part of a data line whose end is in
\* the next chunk: the cut is inside the "data: " prefix and the part is not a
\* data line, or it is behind the prefix and the part is not JSON (nor the
\* whole of "[DONE]").
FirstPart(line) == {OtherLine, BadLine}

\* The rest of the line at the front of the next chunk: no "data: " prefix.
Rest(line) == OtherLine

\* reader.read() resolves with a chunk that ends in the middle of a data
\* line: the chunk is decoded and split on its own, and the rest of the line
\* is the first line of the next chunk.
ReadCut ==
  /\ tr.status = "reading"
  /\ body.end # "errored"
  /\ \E n \in 1..MaxPerRead :
       /\ n <= Len(body.queue)
       /\ body.queue[n].k # "other"
       /\ \E part \in FirstPart(body.queue[n]) :
            LET c == processLines([fullTranslation |-> tr.fullTranslation,
                                   partials |-> obs.partials,
                                   metrics |-> obs.metrics,
                                   returned |-> FALSE],
                                  Append(SubSeq(body.queue, 1, n - 1), part))
            IN /\ tr' = [status |-> IF c.returned THEN "resolved" ELSE "reading",
                         fullTranslation |-> c.fullTranslation]
               /\ obs' = [obs EXCEPT !.partials = c.partials, !.metrics = c.metrics]
               /\ page' = [page EXCEPT !.translatedText =
                            IF c.partials # obs.partials
                            THEN c.partials[Len(c.partials)] ELSE @]
       /\ body' = [body EXCEPT !.queue = <<Rest(body.queue[n])>>
                                           \o SubSeq(body.queue, n + 1, Len(body.queue))]
  /\ UNCHANGED <<hookVars, srv>>

\* translateText on an arbitrary response body that the network cuts into
\* chunks anywhere.
CutNext ==
  \/ StreamNext
  \/ ReadCut

CutSpec == StreamInit /\ [][CutNext]_vars

\* ------------------------------------------- the translate route (part_006)
\* The markers of a reasoning region, each two fragments long, so that a
\* marker can lie inside one chunk or be split over two.
ThinkOpen == <<"<thi", "nk>">>
ThinkClose == <<"</thi", "nk>">>

\* content.includes(marker)
Includes(content, marker) ==
  \E i \in 1..(Len(content) - 1) : content[i] = marker[1] /\ content[i + 1] = marker[2]

\* delta.content of the chunks a provider streams: ordinary text, a marker
\* alone, a marker after ordinary text, a whole region in one chunk, the two
\* halves of a marker, and an empty delta.
ProviderChunks ==
  {<<"a">>, <<"b">>, ThinkOpen, ThinkClose, <<"a">> \o ThinkOpen,
   ThinkOpen \o <<"b">> \o ThinkClose, <<"<thi">>, <<"nk>">>, <<>>}

\* The route is called with the request translateText sent: the provider
\* stream is created and the response returned, or creation fails and the
\* response is an error status.
Post ==
  /\ tr.status = "fetching"
  /\ srv.status = "waiting"
  /\ \E created \in BOOLEAN :
       srv' = [srv EXCEPT !.status = IF created THEN "streaming" ELSE "failed"]
  /\ UNCHANGED <<hookVars, body, tr, obs, page>>

\* One iteration of the for await loop over the provider stream.  The route of
\* route.ts (perChunk) sends every non-empty chunk as a content event of its
\* own; the route of part_006 accumulates the text outside reasoning regions.
ProviderChunk ==
  /\ srv.status = "streaming"
  /\ srv.next <= Len(srv.provider)
  /\ LET content == srv.provider[srv.next]
         first == content # <<>> /\ srv.firstChunk
         sent == (IF first THEN <<MetricsLine>> ELSE <<>>)
                   \o (IF srv.perChunk /\ content # <<>>
                       THEN <<ContentLine(content)>> ELSE <<>>)
     IN /\ body' = [body EXCEPT !.queue = @ \o sent]
        /\ obs' = [obs EXCEPT !.input = @ \o sent]
        /\ srv' = [srv EXCEPT
             !.next = @ + 1,
             !.firstChunk = IF content # <<>> THEN FALSE ELSE @,
             !.isThinkingPhase =
               IF content = <<>> \/ srv.perChunk THEN @
               ELSE IF Includes(content, ThinkOpen) THEN TRUE
               ELSE IF @ /\ Includes(content, ThinkClose) THEN FALSE
               ELSE @,
             !.accumulatedContent =
               IF content = <<>> \/ srv.perChunk \/ Includes(content, ThinkOpen)
                  \/ srv.isThinkingPhase
               THEN @
               ELSE @ \o content]
  /\ UNCHANGED <<hookVars, tr, page>>

\* ProviderEnd, with the sentinel sent before the total-latency metrics.
ProviderEndSentinelFirst ==
  /\ srv.status = "streaming"
  /\ srv.next > Len(srv.provider)
  /\ LET sent == (IF srv.accumulatedContent # <<>>
                  THEN <<ContentLine(srv.accumulatedContent)>> ELSE <<>>)
                   \o <<DoneLine, MetricsLine>>
     IN /\ body' = [queue |-> body.queue \o sent, end |-> "closed"]
        /\ obs' = [obs EXCEPT !.input = @ \o sent]
  /\ srv' = [srv EXCEPT !.status = "done"]
  /\ UNCHANGED <<hookVars, tr, page>>

\* The provider stream ends: the accumulated content, if any, is sent as one
\* content event, then the metrics, then the sentinel, and the body is closed.
ProviderEnd ==
  /\ srv.status = "streaming"
  /\ srv.next > Len(srv.provider)
  /\ LET sent == (IF srv.accumulatedContent # <<>>
                  THEN <<ContentLine(srv.accumulatedContent)>> ELSE <<>>)
                   \o <<MetricsLine, DoneLine>>
     IN /\ body' = [queue |-> body.queue \o sent, end |-> "closed"]
        /\ obs' = [obs EXCEPT !.input = @ \o sent]
  /\ srv' = [srv EXCEPT !.status = "done"]
  /\ UNCHANGED <<hookVars, tr, page>>

\* The provider stream throws: an error event is sent and the body is closed.
ProviderError ==
  /\ srv.status = "streaming"
  /\ body' = [queue |-> Append(body.queue, ErrorLine), end |-> "closed"]
  /\ obs' = [obs EXCEPT !.input = Append(@, ErrorLine)]
  /\ srv' = [srv EXCEPT !.status = "errored"]
  /\ UNCHANGED <<hookVars, tr, page>>

\* translateText against the route, for every provider stream.
RouteInit ==
  /\ HookInit
  /\ page = NoPage
  /\ body = NoBody
  /\ tr = NoCall
  /\ obs = NoObs
  /\ \E p \in UNION {[1..n -> ProviderChunks] : n \in 0..MaxProvider} :
       \E perChunk \in BOOLEAN :
         srv = [NoRoute EXCEPT !.status = "waiting", !.provider = p,
                               !.perChunk = perChunk]

RouteNext ==
  \/ Translate
  \/ Post
  \/ ProviderChunk
  \/ ProviderEnd
  \/ ProviderError
  \/ Respond
  \/ Read
  \/ ReadDone

RouteSpec == RouteInit /\ [][RouteNext]_vars

\* ---------------------------------------------------- withRetry (part_006)
\* The errors an attempt of the operation can throw: what its message holds
\* and its status.
OperationErrors ==
  {[message |-> m, status |-> st] : m \in {"blocked", "network", "other"},
                                    st \in {403, 503, 500}}
  \ {[message |-> "blocked", status |-> 403], [message |-> "network", status |-> 503],
     [message |-> "blocked", status |-> 503], [message |-> "network", status |-> 403]}

\* The test that makes withRetry wait and try again.
Retryable(error) ==
  \/ error.message = "blocked"
  \/ error.message = "network"
  \/ error.status = 403
  \/ error.status = 503

\* The first test of the catch block, with > in place of >=.
ExhaustedLate(retryCount) == retryCount > MAX_RETRIES
\* The first test of the catch block.
Exhausted(retryCount) == retryCount >= MAX_RETRIES

\* The route calls withRetry(operation): retryCount = 0.
WithRetry ==
  /\ srv.retry.pc = "idle"
  /\ srv' = [srv EXCEPT !.retry.pc = "calling"]
  /\ UNCHANGED <<hookVars, body, tr, obs, page>>

\* `await operation()` settles: with a value, which is returned, or with an
\* error, which is rethrown or followed by the wait for the next attempt.
Attempt ==
  /\ srv.retry.pc = "calling"
  /\ srv.retry.calls < MaxOps
  /\ \/ srv' = [srv EXCEPT !.retry.calls = @ + 1,
                           !.retry.pc = "returned",
                           !.retry.result = srv.retry.calls + 1]
     \/ \E error \in OperationErrors :
          srv' = [srv EXCEPT
            !.retry.calls = @ + 1,
            !.retry.errors = Append(@, error),
            !.retry.pc = IF Exhausted(srv.retry.retryCount) THEN "thrown"
                         ELSE IF Retryable(error) THEN "waiting"
                         ELSE "thrown",
            !.retry.delays = IF ~Exhausted(srv.retry.retryCount) /\ Retryable(error)
                             THEN Append(@, INITIAL_RETRY_DELAY * 2^srv.retry.retryCount)
                             ELSE @]
  /\ UNCHANGED <<hookVars, body, tr, obs, page>>

\* The delay has passed: withRetry(operation, retryCount + 1).
DelayElapsed ==
  /\ srv.retry.pc = "waiting"
  /\ srv' = [srv EXCEPT !.retry.pc = "calling", !.retry.retryCount = @ + 1]
  /\ UNCHANGED <<hookVars, body, tr, obs, page>>

RetryNext ==
  \/ WithRetry
  \/ Attempt
  \/ DelayElapsed

\* The operation's promise settles and the timer of the delay fires.
RetryFairness ==
  /\ WF_vars(WithRetry)
  /\ WF_vars(Attempt)
  /\ WF_vars(DelayElapsed)

RetrySpec == Init /\ [][RetryNext]_vars /\ RetryFairness

\* ------------------------------------------------------ the page (part_000)
\* The error strings of the speech-to-text endpoint for a clip without usable
\* speech, its other error strings, and the strings processAudio ignores in
\* each of its two phases.
SpeechRejections == {"No voice detected", "Low quality speech detected", "Speech too short"}
SpeechFailures == {"Invalid audio file", "Processing error"}
IgnoredInSetup == {"Low quality speech detected", "No speech detected", "Speech too short"}
IgnoredInTranslation ==
  {"Low quality speech detected", "No speech detected", "Transcription too short"}

\* The response bodies of the translations the page requests.
PageBodies ==
  {<<ContentLine(<<"x">>), ContentLine(<<"y">>), DoneLine>>, <<ContentLine(<<"x">>)>>}

\* The page renders: its closures and the props of LanguageSelector take the
\* state; LanguageSelector's playback effect clears its timer and, for a new
\* non-empty translatedText, sets one.
PageRender ==
  /\ page.rendered # [isInitialSetup |-> page.isInitialSetup,
                      translatedText |-> page.translatedText]
  /\ page' = [page EXCEPT
       !.rendered = [isInitialSetup |-> page.isInitialSetup,
                     translatedText |-> page.translatedText],
       !.ttsTimer = IF page.translatedText = page.rendered.translatedText THEN @
                    ELSE IF page.translatedText = <<>> THEN <<>>
                    ELSE <<page.translatedText>>]
  /\ UNCHANGED <<hookVars, srv, body, tr, obs>>

\* startRecording creates a recorder whose onstop holds the onRecordingComplete
\* of the current render.
RecordingCaptured ==
  /\ Len(page.clips) < MaxClips
  /\ page.seen.utterances + Len(page.clips) < MaxUtter
  /\ page' = [page EXCEPT !.clips = Append(@, page.rendered.isInitialSetup)]
  /\ UNCHANGED <<hookVars, srv, body, tr, obs>>

\* OnRecordingComplete, without the test of processingRef.
OnRecordingCompleteUnguarded ==
  \E i \in 1..Len(page.clips) : \E big \in BOOLEAN :
    /\ page' = IF ~big
               THEN [page EXCEPT !.clips = Without(@, i)]
               ELSE [page EXCEPT !.clips = Without(@, i),
                                 !.processingRef = TRUE,
                                 !.isProcessing = TRUE,
                                 !.error = FALSE,
                                 !.pc = "stt",
                                 !.setup = page.clips[i],
                                 !.seen.utterances = @ + 1,
                                 !.seen.stt = "-"]
    /\ UNCHANGED <<hookVars, srv, body, tr, obs>>

\* A recorder's onstop calls its processAudio with a clip: up to the first await.
OnRecordingComplete ==
  \E i \in 1..Len(page.clips) : \E big \in BOOLEAN :
    /\ page' = IF page.processingRef
               THEN [page EXCEPT !.clips = Without(@, i), !.seen.dropped = TRUE]
               ELSE IF ~big
               THEN [page EXCEPT !.clips = Without(@, i)]
               ELSE [page EXCEPT !.clips = Without(@, i),
                                 !.processingRef = TRUE,
                                 !.isProcessing = TRUE,
                                 !.error = FALSE,
                                 !.pc = "stt",
                                 !.setup = page.clips[i],
                                 !.seen.utterances = @ + 1,
                                 !.seen.stt = "-"]
    /\ UNCHANGED <<hookVars, srv, body, tr, obs>>

\* The speech-to-text request settles: with a transcript, with one of the
\* endpoint's error strings, or by throwing.
SpeechResponds ==
  /\ page.pc = "stt"
  /\ \E o \in {"ok", "throws"} \cup SpeechRejections \cup SpeechFailures :
       LET pg == [page EXCEPT !.seen.stt = o] IN
       IF o = "ok" /\ page.setup
       THEN /\ page' = [pg EXCEPT !.pc = "lang", !.seen.transcripts = @ + 1,
                                  !.seen.langCalls = @ + 1]
            /\ UNCHANGED <<body, tr, obs>>
       ELSE IF o = "ok"
       THEN /\ page' = [pg EXCEPT !.pc = "translating", !.seen.transcripts = @ + 1,
                                  !.seen.abandoned = FALSE]
            /\ tr' = [status |-> "fetching", fullTranslation |-> <<>>]
            /\ \E b \in PageBodies :
                 /\ body' = [queue |-> b, end |-> "open"]
                 /\ obs' = [NoObs EXCEPT !.input = b]
       ELSE /\ page' = IF o \in (IF page.setup THEN IgnoredInSetup ELSE IgnoredInTranslation)
                       THEN finally(pg)
                       ELSE finally(catch(pg))
            /\ UNCHANGED <<body, tr, obs>>
  /\ UNCHANGED <<hookVars, srv>>

\* The language-detection request settles.
LanguageResponds ==
  /\ page.pc = "lang"
  /\ \E ok \in BOOLEAN :
       page' = IF ok
               THEN finally([page EXCEPT !.isInitialSetup = FALSE,
                                         !.seen.detections = @ + 1])
               ELSE finally(catch(page))
  /\ UNCHANGED <<hookVars, srv, body, tr, obs>>

\* translateText has settled: the message is added, or the error is set.
TranslationSettles ==
  /\ page.pc = "translating"
  /\ tr.status \in {"resolved", "rejected"}
  /\ page' = IF tr.status = "resolved"
             THEN finally([page EXCEPT !.messages = Append(@, tr.fullTranslation)])
             ELSE finally(catch(page))
  /\ tr' = NoCall
  /\ UNCHANGED <<hookVars, srv, body, obs>>

\* The user turns listening off while a translation is being read: nothing
\* of stopListening reaches the request or its reader.
StopWhileTranslating ==
  /\ page.pc = "translating"
  /\ tr.status \in {"fetching", "reading"}
  /\ ~page.seen.abandoned
  /\ page' = [page EXCEPT !.seen.abandoned = TRUE]
  /\ UNCHANGED <<hookVars, srv, body, tr, obs>>

\* The timer of the playback effect fires: playTranslatedText requests speech
\* for the translatedText of its render unless audio is loading or playing.
PlaybackTimer ==
  /\ page.ttsTimer # <<>>
  /\ page' = IF page.ttsBusy
             THEN [page EXCEPT !.ttsTimer = <<>>]
             ELSE [page EXCEPT !.ttsTimer = <<>>,
                               !.ttsBusy = TRUE,
                               !.seen.tts = Append(@, [text |-> page.ttsTimer[1],
                                                       pc |-> page.pc,
                                                       status |-> tr.status])]
  /\ UNCHANGED <<hookVars, srv, body, tr, obs>>

\* The audio ends or fails: cleanupAudio.
PlaybackEnds ==
  /\ page.ttsBusy
  /\ page' = [page EXCEPT !.ttsBusy = FALSE]
  /\ UNCHANGED <<hookVars, srv, body, tr, obs>>

PageInit ==
  /\ HookInit
  /\ srv = NoRoute
  /\ body = NoBody
  /\ tr = NoCall
  /\ obs = NoObs
  /\ page = NoPage

PageNext ==
  \/ PageRender
  \/ RecordingCaptured
  \/ OnRecordingComplete
  \/ SpeechResponds
  \/ LanguageResponds
  \/ Respond
  \/ Read
  \/ ReadDone
  \/ ReadError
  \/ BodyEnds
  \/ TranslationSettles
  \/ StopWhileTranslating
  \/ PlaybackTimer
  \/ PlaybackEnds

PageSpec == PageInit /\ [][PageNext]_vars

\* ------------------------------------------------------------------ claims

\* C1: within one audio session at most one recording is active at any time.
C1_AtMostOneRecording == Cardinality(ActiveRecs) <= 1

\* C2: once every sample is below the threshold, a recording that is active is
\* eventually stopped (the silence timer is the only thing left to stop it).
C2_SilenceStopsRecording ==
  \A r \in Recs :
    (hist.onlyQuiet /\ recorders[r].st = "recording") ~> (recorders[r].st # "recording")

\* C3: while the last sample taken was not below the threshold, no silence
\* timer is armed or pending and no stop due to silence is issued.
C3_NoSilenceStopWhileLoud ==
  ~hist.quiet => /\ silenceTimeoutRef = 0
                 /\ timers = {}
                 /\ hist.ev # "silenceStop"

\* A loud sample was taken during a recording that the loop monitors.
C3_Witness ==
  /\ hist.ev = "loud"
  /\ loop.isRecording
  /\ ActiveRecs # {}
  /\ timers = {}

\* C4: a pending silence timer belongs to the current silence window: no
\* sample at or above the threshold was taken since it was armed (such a sample
\* cancels it), and it was armed with the full silenceTimeout at or after the
\* first quiet sample of the window.
C4_TimerOfCurrentSilence ==
  \A t \in timers : hist.quiet /\ t.left + hist.quietFor >= silenceTimeout

\* A loud sample has just cancelled a pending timer and the recording goes on.
C4_Witness ==
  /\ hist.ev = "cancel"
  /\ ActiveRecs # {}
  /\ silenceTimeoutRef = 0
  /\ timers = {}

\* C5: the timer's callback calls stopRecording only when a recording is active
\* and the last sample was below the threshold.
C5_StopOnlyWhileRecording ==
  [][hist'.ev = "silenceStop" => ActiveRecs # {} /\ hist.quiet]_vars

\* C6: detectSilence calls startRecording only while listening is active and
\* no recording is active.
C6_SpeechStartOnlyWhenIdle ==
  [][hist'.ev = "speechStart" => state.isListening /\ ActiveRecs = {}]_vars

\* A stop that stopRecording began has not yet reached the cleanup of onstop.
StopInProgress == \E r \in Recs : recorders[r].by = "stopRecording"

\* A startRecording call is suspended at one of its awaits.
StartInProgress == \E i \in 1..Len(pending) : pending[i].f = "startRecording"

\* C7: while a stop is in progress the guard of startRecording rejects a call,
\* and while a start is in progress the guard of stopRecording rejects a call.
C7_StartStopExclusive ==
  /\ StopInProgress => isProcessingRef \/ rendered.isRecording
  /\ StartInProgress => isProcessingRef

\* C8: the chunks handed to onRecordingComplete are the ring as it was when the
\* recorder was started, followed by that recorder's own chunks in order.
C8_BlobIsRingAtStartThenLive ==
  hist.ev = "onstop" /\ hist.blob # <<>> =>
    hist.blob = hist.ringWas \o [k \in 1..recorders[hist.rec].n |-> <<hist.rec, k>>]

\* C9: the ring holds at most RingSize segments, and they are the most recently
\* produced non-empty ones in the order they were produced (so a segment
\* arriving at a full ring evicts the oldest).
C9_RingHoldsMostRecent ==
  /\ Len(preBufferRef) <= RingSize
  /\ \A i \in 1..Len(preBufferRef) :
       preBufferRef[i] = <<0, preCount - Len(preBufferRef) + i>>

\* The ring is full and the first segment has been evicted from it.
C9_Witness ==
  /\ Len(preBufferRef) = RingSize
  /\ preCount = RingSize + 1
  /\ Head(preBufferRef) = <<0, 2>>

\* C10: while listening is active the pre-buffer recorder is running.
C10_PreBufferRunsWhileListening ==
  state.isListening => preRecorder.st = "recording"

\* C11: a blob whose live chunks are below MinBlobSize bytes is not handed to
\* onRecordingComplete and does not reach the speech-to-text request.
C11_SmallClipDiscarded ==
  hist.ev = "onstop" /\ hist.liveSize < MinBlobSize =>
    hist.blob = <<>> /\ ~hist.stt

\* The sessions whose AudioContext exists and is not closed.
OpenContexts == {s \in Sessions : ctxState[s] \in {"running", "suspending", "suspended"}}

\* C12: however startListening calls overlap, at most one stream is live, it is
\* the one streamRef holds, and the only open context is the one
\* audioContextRef holds.
C12_OneOwnedSession ==
  /\ Cardinality(tracksLive) <= 1
  /\ tracksLive \subseteq {streamRef}
  /\ OpenContexts \subseteq {audioContextRef}

\* C13: a stopListening call leaves no pending silence timer, no running
\* recorder (main or pre-buffer), no live device track and no open context.
C13_StopListeningReleasesAll ==
  [][StopListening =>
       /\ silenceTimeoutRef' = 0
       /\ timers' = {}
       /\ \A r \in Recs : recorders'[r].st # "recording"
       /\ preRecorder'.st # "recording"
       /\ tracksLive' = {}
       /\ \A s \in Sessions : ctxState'[s] \in {"none", "closed"}]_vars

\* C14: when device acquisition or the graph set-up of a startListening call
\* fails, isListening is left as it was, the refs are cleared, no track is live
\* and no context is open.
C14_FailedStartReleasesAll ==
  [][StartListeningFailed \/ RapidListeningSetupFailed =>
       /\ state'.isListening = state.isListening
       /\ streamRef' = 0
       /\ audioContextRef' = 0
       /\ analyserRef' = 0
       /\ tracksLive' = {}
       /\ \A s \in Sessions : ctxState'[s] \in {"none", "closed"}]_vars

\* The onstop handler of some recorder is awaiting onRecordingComplete.
ClipBeingProcessed == \E r \in Recs : recorders[r].h = "awaiting"

\* C15: while a handed-over clip is being processed and no recording is active
\* or being started, a speech-start is not rejected by the processing guard.
C15_StartWhileProcessing ==
  [][(/\ hist'.ev = "speechStart"
      /\ ClipBeingProcessed
      /\ ActiveRecs = {}
      /\ ~StartInProgress
      /\ ~rendered.isRecording) => hist'.start # "ignored"]_vars


\* ---------------------------------------------------- reasoning-region reference
RECURSIVE Flatten(_)
\* The text of a sequence of chunks, end to end.
Flatten(chunks) == IF chunks = <<>> THEN <<>> ELSE Head(chunks) \o Flatten(Tail(chunks))

RECURSIVE ScanFrom(_, _, _, _)
\* A scanner with the two states outside and inside a region, run over text t
\* from position i: it gives the state it ends in and the text outside regions.
ScanFrom(inside, t, i, out) ==
  IF i > Len(t) THEN [inside |-> inside, out |-> out]
  ELSE IF i < Len(t) /\ ~inside /\ t[i] = "<thi" /\ t[i + 1] = "nk>"
  THEN ScanFrom(TRUE, t, i + 2, out)
  ELSE IF i < Len(t) /\ inside /\ t[i] = "</thi" /\ t[i + 1] = "nk>"
  THEN ScanFrom(FALSE, t, i + 2, out)
  ELSE IF inside THEN ScanFrom(inside, t, i + 1, out)
  ELSE ScanFrom(inside, t, i + 1, Append(out, t[i]))

Outside(t) == ScanFrom(FALSE, t, 1, <<>>).out

\* C16: for every sequence of provider content chunks that the provider
\* streams to its end, the text translateText resolves with is the
\* concatenation, in order, of the text outside <think>...</think> regions:
\* nothing from inside a region is delivered and nothing outside is lost,
\* also when a marker shares a chunk with ordinary text, when both markers are
\* in one chunk, and when a marker is split across two chunks.
C16_DeliveredIsTextOutsideRegions ==
  tr.status = "resolved" /\ srv.status = "done" =>
    tr.fullTranslation = Outside(Flatten(srv.provider))

RECURSIVE RegionCallbacks(_, _, _, _)
\* What a reader that keeps the scanner state across events makes of the
\* events up to the first sentinel: the accumulated text, and one callback
\* with the whole accumulated text for every content event that has text
\* outside a region.
RegionCallbacks(inside, acc, partials, lines) ==
  IF lines = <<>> \/ Head(lines).k = "done"
  THEN [fullTranslation |-> acc, partials |-> partials]
  ELSE IF Head(lines).k = "content"
  THEN LET sc == ScanFrom(inside, Head(lines).text, 1, <<>>)
       IN IF sc.out # <<>>
          THEN RegionCallbacks(sc.inside, acc \o sc.out, Append(partials, acc \o sc.out),
                               Tail(lines))
          ELSE RegionCallbacks(sc.inside, acc, partials, Tail(lines))
  ELSE RegionCallbacks(inside, acc, partials, Tail(lines))

\* C17: once translateText has resolved, its partial-result callbacks are one
\* per non-empty content event outside a reasoning region, in order, each
\* carrying the whole text accumulated so far, and none for content inside a
\* region; for Hel, lo, <think>, ignored, </think>, " world", [DONE] they are
\* Hel, Hello, Hello world and the resolved value is Hello world.
C17_OnePartialPerOutsideEvent ==
  tr.status = "resolved" =>
    /\ obs.partials = RegionCallbacks(FALSE, <<>>, <<>>, obs.input).partials
    /\ tr.fullTranslation = RegionCallbacks(FALSE, <<>>, <<>>, obs.input).fullTranslation

RECURSIVE ContentText(_)
\* The text of the content events of a sequence of lines, end to end.
ContentText(lines) ==
  IF lines = <<>> THEN <<>>
  ELSE (IF Head(lines).k = "content" THEN Head(lines).text ELSE <<>>)
         \o ContentText(Tail(lines))

NoSentinel(lines) == \A i \in 1..Len(lines) : lines[i].k # "done"

Settled == tr.status \in {"resolved", "rejected"}

\* C18: when the body ends without a [DONE] sentinel, translateText resolves
\* with exactly the text of the content events received; and when the body
\* eventually ends or errors, translateText eventually settles.
C18_ResolvesWithoutSentinel ==
  /\ [](tr.status = "resolved" /\ NoSentinel(obs.input) =>
          tr.fullTranslation = ContentText(obs.input))
  /\ <>Settled

\* A call resolved by the end of a body that held content and no sentinel.
C18_Witness ==
  /\ tr.status = "resolved"
  /\ body.end = "closed"
  /\ NoSentinel(obs.input)
  /\ tr.fullTranslation # <<>>
  /\ tr.fullTranslation = ContentText(obs.input)

\* The lines in front of the first sentinel.
UpToSentinel(lines) ==
  IF NoSentinel(lines) THEN lines
  ELSE SubSeq(lines, 1,
              (CHOOSE i \in 1..Len(lines) :
                 lines[i].k = "done" /\ \A j \in 1..(i - 1) : lines[j].k # "done") - 1)

RECURSIVE Running(_, _)
\* The accumulated text after each non-empty content event, in order.
Running(acc, lines) ==
  IF lines = <<>> THEN <<>>
  ELSE IF Head(lines).k = "content" /\ Head(lines).text # <<>>
  THEN <<acc \o Head(lines).text>> \o Running(acc \o Head(lines).text, Tail(lines))
  ELSE Running(acc, Tail(lines))

MetricsIn(lines) == Cardinality({i \in 1..Len(lines) : lines[i].k = "metrics"})

\* C19: translateText processes the events in arrival order and resolves
\* once, at the first [DONE] sentinel, with the text accumulated up to it; no
\* event after the first sentinel, a further sentinel or further content
\* included, changes the resolved value or triggers a callback.
C19_ResolvesAtFirstSentinel ==
  /\ [](tr.status = "resolved" =>
          /\ tr.fullTranslation = ContentText(UpToSentinel(obs.input))
          /\ obs.partials = Running(<<>>, UpToSentinel(obs.input))
          /\ obs.metrics = MetricsIn(UpToSentinel(obs.input)))
  /\ [][tr.status = "resolved" => tr' = tr /\ obs' = obs]_vars

\* A call resolved at a sentinel that further content and a further sentinel
\* follow.
C19_Witness ==
  /\ tr.status = "resolved"
  /\ tr.fullTranslation # <<>>
  /\ \E i \in 1..(Len(obs.input) - 2) :
       /\ Len(UpToSentinel(obs.input)) = i - 1
       /\ obs.input[i + 1].k = "content"
       /\ obs.input[i + 2].k = "done"

\* The same stream without its malformed events, and what translateText
\* makes of it.
WithoutBad(lines) == SelectSeq(lines, LAMBDA l : l.k # "bad")

CleanRun ==
  processLines([fullTranslation |-> <<>>, partials |-> <<>>, metrics |-> 0,
                returned |-> FALSE],
               WithoutBad(obs.input))

\* C20: a data line that is not valid JSON and is not the sentinel is skipped
\* on its own: it changes no text and makes no callback, and the well-formed
\* events after it are still processed, so the resolved text and the
\* callbacks are those of the same stream without the malformed events.
C20_MalformedEventSkipped ==
  tr.status = "resolved" =>
    /\ tr.fullTranslation = CleanRun.fullTranslation
    /\ obs.partials = CleanRun.partials
    /\ obs.metrics = CleanRun.metrics

\* A call resolved after a malformed event that content followed, in front of
\* any sentinel.
C20_Witness ==
  /\ tr.status = "resolved"
  /\ \E i \in 1..Len(UpToSentinel(obs.input)) : \E j \in (i + 1)..Len(UpToSentinel(obs.input)) :
       /\ obs.input[i].k = "bad"
       /\ obs.input[j].k = "content"
  /\ tr.fullTranslation = ContentText(UpToSentinel(obs.input))

\* The lines translateText has taken off the body and acted on: those read,
\* up to the first sentinel.
Processed ==
  UpToSentinel(SubSeq(obs.input, 1, Len(obs.input) - Len(body.queue)))

\* C21: a metrics event reaches only the metrics callback and a content
\* event only the text and the partial callback: at every moment the text is
\* that of the content events processed, the partial callbacks are one per
\* non-empty content event, and the metrics callbacks one per metrics event.
C21_MetricsApartFromText ==
  /\ tr.fullTranslation = ContentText(Processed)
  /\ obs.partials = Running(<<>>, Processed)
  /\ obs.metrics = MetricsIn(Processed)

\* A call that has processed a metrics event between two content events.
C21_Witness ==
  /\ \E i \in 1..(Len(Processed) - 2) :
       /\ Processed[i].k = "content"
       /\ Processed[i + 1].k = "metrics"
       /\ Processed[i + 2].k = "content"
  /\ obs.metrics = 1
  /\ Len(obs.partials) = 2

\* C22: once the caller has given up an in-flight translation read, the
\* reader is released, no further partial callback is delivered, the text
\* accumulated so far is discarded, and neither the resolved string nor the
\* message built from it is delivered for that request.
C22_CancelledReadDeliversNothing ==
  [][page.seen.abandoned /\ page.pc = "translating" =>
       /\ tr'.status # "reading"
       /\ obs'.partials = obs.partials
       /\ page'.translatedText = page.translatedText
       /\ page'.messages = page.messages]_vars

\* C23: every rejection string the speech-to-text endpoint returns for no
\* speech, low quality or too-short speech is among those processAudio
\* ignores in the setup phase and in the translation phase; when the endpoint
\* answers with one, no error is set, no transcript and no message is
\* recorded, and the processing flag is cleared.
C23_RejectionsIgnored ==
  [][page.pc = "stt" /\ page'.seen.stt \in SpeechRejections =>
       /\ ~page'.error
       /\ page'.seen.errors = page.seen.errors
       /\ page'.seen.transcripts = page.seen.transcripts
       /\ page'.messages = page.messages
       /\ ~page'.processingRef
       /\ ~page'.isProcessing]_vars

\* C24: a failure path of the recording state machine (the recorder's error
\* event, an exception while a recording is started) ends in Listening with a
\* usable session or in Idle with isListening false: it never leaves
\* isListening true with the stream, the audio context or the analyser released.
C24_FailureLeavesListeningUsable ==
  [][RecorderError \/ StartRecordingFailed =>
       (state'.isListening =>
          streamRef' # 0 /\ audioContextRef' # 0 /\ analyserRef' # 0)]_vars

\* C25: when a request of processAudio fails, the error is set once, the
\* page's processing flag and the recorder's processing guard are cleared and
\* isRecording is false; and a speech-start that finds the render current, no
\* recording, no clip being processed and no start or stop in progress is not
\* turned away by the guard of startRecording.
C25_FailedCallLeavesReady ==
  /\ [][hist'.ev = "failed" =>
          /\ page'.error
          /\ page'.seen.errors = page.seen.errors + 1
          /\ ~page'.processingRef
          /\ ~page'.isProcessing
          /\ ~isProcessingRef'
          /\ ~state'.isRecording]_vars
  /\ [][(/\ hist'.ev = "speechStart"
         /\ rendered = state
         /\ ~state.isRecording
         /\ ~ClipBeingProcessed
         /\ ~StopInProgress
         /\ ~StartInProgress) => hist'.start # "ignored"]_vars

\* A request of processAudio has just failed while listening is on.
C25_Witness ==
  /\ hist.ev = "failed"
  /\ state.isListening
  /\ page.error
  /\ ~isProcessingRef

\* A startListening call has just gone to acquire the device.
NewAcquisition ==
  /\ Len(pending') > Len(pending)
  /\ pending'[Len(pending')].f = "startListening"
  /\ pending'[Len(pending')].at = "getUserMedia"

\* C26: a startListening call that finds the stream, the audio context and
\* the analyser in place, as they are after stopListening on an open session,
\* keeps all three and acquires no device; it goes to acquire a new session
\* only when one of the three is missing.
C26_OpenSessionReused ==
  [][/\ NewAcquisition => streamRef = 0 \/ audioContextRef = 0 \/ analyserRef = 0
     /\ (StartListening /\ streamRef # 0 /\ audioContextRef # 0 /\ analyserRef # 0) =>
          /\ UNCHANGED <<streamRef, audioContextRef, analyserRef, tracksLive>>
          /\ \A s \in Sessions : ctxState[s] = "none" => ctxState'[s] = "none"]_vars

\* startListening, called after stopListening has suspended the context of an
\* open session, is resuming that context; no other session exists.
C26_Witness ==
  /\ \E i \in 1..Len(pending) :
       /\ pending[i].f = "startListening"
       /\ pending[i].at = "resume"
       /\ pending[i].ctx = audioContextRef
  /\ streamRef # 0
  /\ tracksLive = {streamRef}
  /\ \A s \in Sessions : ctxState[s] # "none" => s = audioContextRef

\* The teardown started by stopListening has not completed: the suspension of
\* the audio context is pending, or the stop event of a recorder it stopped.
TeardownPending ==
  \/ \E s \in Sessions : ctxState[s] = "suspending"
  \/ /\ ~state.isListening
     /\ \E r \in Recs : recorders[r].ev = "stop" /\ recorders[r].by # "stopRecording"

\* C27: a startListening call that arrives while the teardown of the previous
\* stopListening is pending is rejected: it neither turns listening on nor
\* waits; and the context never becomes suspended under a session that is
\* listening.
C27_StartDuringTeardownRejected ==
  /\ [][StartListening /\ TeardownPending =>
          state'.isListening = state.isListening /\ pending' = pending]_vars
  /\ [][\A s \in Sessions :
          ctxState[s] = "suspending" /\ ctxState'[s] = "suspended" /\ s = audioContextRef
            => ~state.isListening]_vars

\* C28: a speech-synthesis request is issued only once translateText has
\* resolved with the final string: none is issued for a partial translation
\* while the stream of the same utterance is still being read.
C28_SpeechOnlyAfterResolved ==
  \A i \in 1..Len(page.seen.tts) :
    ~(page.seen.tts[i].pc = "translating" /\ page.seen.tts[i].status = "reading")

C30_DetectionOnlyOnce ==
  /\ [][page.seen.detections > 0 =>
          /\ page'.seen.langCalls = page.seen.langCalls
          /\ page'.seen.detections = page.seen.detections
          /\ (page.pc = "idle" /\ page'.pc = "stt" => ~page'.setup)]_vars
  /\ [][page.seen.detections = 0 /\ page'.seen.detections = 0 =>
          page'.isInitialSetup]_vars

\* b is a with at least one fragment appended.
ProperExtension(a, b) == Len(b) > Len(a) /\ SubSeq(b, 1, Len(a)) = a

\* C31: within one translateText call every partial value properly extends
\* the one before it, the accumulated (and so the resolved) text is the last
\* partial value or empty when there was none, and a new call starts from an
\* empty accumulator with no partial, whatever earlier calls accumulated.
C31_AppendOnly ==
  [][/\ \A i \in 1..Len(obs.partials) :
          ProperExtension(IF i = 1 THEN <<>> ELSE obs.partials[i - 1], obs.partials[i])
     /\ (tr.status # "idle" =>
           tr.fullTranslation =
             (IF obs.partials = <<>> THEN <<>> ELSE obs.partials[Len(obs.partials)]))
     /\ (tr.status = "resolved" /\ Len(page'.messages) > Len(page.messages) =>
           page'.messages[Len(page'.messages)] = tr.fullTranslation)
     /\ (tr.status # "fetching" /\ tr'.status = "fetching" =>
           tr'.fullTranslation = <<>> /\ obs'.partials = <<>>)]_vars

\* A second translation is being read and has delivered its first partial,
\* after an earlier call resolved with two events' worth of text.
C31_Witness ==
  /\ page.messages # <<>>
  /\ Len(page.messages[1]) = 2
  /\ tr.status = "reading"
  /\ Len(obs.partials) = 1
  /\ Len(tr.fullTranslation) = 1

RECURSIVE EachInOwnChunk(_, _)
\* The state of a call that is given every line in a chunk of its own.
EachInOwnChunk(c, lines) ==
  IF lines = <<>> \/ c.returned THEN c
  ELSE EachInOwnChunk(processLines(c, <<Head(lines)>>), Tail(lines))

\* C32: however the event stream is cut into chunks, a cut in the middle of a
\* data line included, the partial callbacks and the resolved string are
\* those of the call that is given each event in a chunk of its own.
C32_ChunkingIndependent ==
  tr.status = "resolved" =>
    LET ref == EachInOwnChunk([fullTranslation |-> <<>>, partials |-> <<>>,
                               metrics |-> 0, returned |-> FALSE], obs.input)
    IN /\ obs.partials = ref.partials
       /\ tr.fullTranslation = ref.fullTranslation

\* C33: at most one processAudio pipeline is in flight: one starts only when
\* none is running, the flag is set exactly while one runs, a clip delivered
\* meanwhile is dropped and changes nothing, the return for a small clip
\* leaves the flag alone, and every exit of the pipeline clears the flag.
C33_OnePipelineInFlight ==
  [][/\ page.processingRef = (page.pc # "idle")
     /\ (page'.seen.utterances > page.seen.utterances =>
           page.pc = "idle" /\ ~page.processingRef /\ page'.processingRef)
     /\ (Len(page'.clips) < Len(page.clips) /\ page.processingRef =>
           /\ [page' EXCEPT !.clips = page.clips, !.seen.dropped = page.seen.dropped] = page
           /\ UNCHANGED <<tr, body, obs>>)
     /\ (Len(page'.clips) < Len(page.clips)
           /\ page'.seen.utterances = page.seen.utterances =>
           page'.processingRef = page.processingRef)
     /\ (page.pc # "idle" /\ page'.pc = "idle" =>
           ~page'.processingRef /\ ~page'.isProcessing)]_vars

\* A clip was delivered and dropped while the only pipeline is still in flight.
C33_Witness ==
  /\ page.seen.dropped
  /\ page.seen.utterances = 1
  /\ page.pc # "idle"
  /\ page.processingRef

\* C34: when the stop handler of a recording resumes after awaiting the
\* completion callback while a recording started after it is active, it
\* leaves that recording's chunk list, isRecording, the recorder reference
\* and the silence timer as they are.
C34_EarlierHandlerSparesLater ==
  [][\A r \in Recs :
       (/\ recorders[r].h = "awaiting"
        /\ recorders'[r].h = "done"
        /\ \E q \in Recs : q > r /\ recorders[q].st = "recording") =>
         /\ audioChunksRef' = audioChunksRef
         /\ state'.isRecording = state.isRecording
         /\ state'.mediaRecorder = state.mediaRecorder
         /\ silenceTimeoutRef' = silenceTimeoutRef
         /\ timers' = timers]_vars

\* C35: in every reachable state, isListening implies that the stream, the
\* audio context and the analyser of the session are present, and isRecording
\* implies that isListening holds or that the recorder has already been
\* stopped and its stop handler is still to finish.
C35_ListeningHasSession ==
  /\ state.isListening => streamRef # 0 /\ audioContextRef # 0 /\ analyserRef # 0
  /\ state.isRecording =>
       \/ state.isListening
       \/ /\ state.mediaRecorder # 0
          /\ recorders[state.mediaRecorder].st # "recording"

\* C36: when the provider fails in the middle of the stream, so that the
\* route sends an error event and closes the body without the sentinel,
\* translateText does not resolve as if the translation were complete.
C36_ProviderFailureNotCompleted ==
  srv.status = "errored" => tr.status # "resolved"

\* C37: while listening on a session exactly one source node is connected to
\* its analyser, and after stopListening none is, however many
\* stopListening/startListening cycles the session has gone through.
C37_OneSourceNode ==
  /\ [](state.isListening /\ HasSession => hist.sources = 1)
  /\ [][StopListening /\ HasSession => hist'.sources = 0]_vars

\* The positions of the events of kind k among the events the route has sent.
Sent(k) == {i \in 1..Len(obs.input) : obs.input[i].k = k}

\* C38: in every event stream of the translate route a metrics event precedes
\* every content event, the stream that ends normally ends with the
\* total-latency metrics event followed by [DONE] after every content event,
\* a closed stream ends with [DONE] or with a single error event and holds
\* neither anywhere else, and nothing is sent after the end.
C38_EventOrder ==
  /\ [](\A i \in Sent("content") : \E j \in Sent("metrics") : j < i)
  /\ [](srv.status = "done" =>
          /\ Len(obs.input) >= 2
          /\ obs.input[Len(obs.input)].k = "done"
          /\ obs.input[Len(obs.input) - 1].k = "metrics"
          /\ Cardinality(Sent("metrics")) = IF srv.firstChunk THEN 1 ELSE 2)
  /\ [](Sent("done") \cup Sent("error") =
          IF body.end = "closed" THEN {Len(obs.input)} ELSE {})
  /\ [][body.end = "closed" => obs'.input = obs.input]_vars

\* The streaming route has sent two content events and ended with [DONE].
C38_Witness ==
  /\ srv.status = "done"
  /\ srv.perChunk
  /\ Cardinality(Sent("content")) = 2
  /\ body.queue = <<>>

\* C39: withRetry calls the operation at most MAX_RETRIES + 1 times and
\* terminates; it returns the value of the first successful attempt, rethrows
\* a non-retryable error without a further attempt and the last error after
\* the last allowed attempt, and waits 1000 * 2^n ms before retry n (from 0).
C39_RetryBounded ==
  LET w == srv.retry IN
  /\ [](w.calls <= MAX_RETRIES + 1)
  /\ [](\A i \in 1..Len(w.errors) : i < w.calls => Retryable(w.errors[i]))
  /\ [](w.pc = "returned" => w.result = w.calls /\ Len(w.errors) = w.calls - 1)
  /\ [](w.pc = "thrown" =>
          /\ Len(w.errors) = w.calls
          /\ Retryable(w.errors[w.calls]) => w.calls = MAX_RETRIES + 1)
  /\ [](\A n \in 1..Len(w.delays) : w.delays[n] = 1000 * 2^(n - 1))
  /\ [](w.pc \in {"calling", "waiting"} => Len(w.delays) = w.calls)
  /\ (w.pc = "calling" ~> w.pc \in {"returned", "thrown"})

\* Three retryable failures were waited out and the fourth attempt failed
\* with a retryable error too, which was rethrown.
C39_Witness ==
  /\ srv.retry.pc = "thrown"
  /\ srv.retry.calls = 4
  /\ srv.retry.delays = <<1000, 2000, 4000>>
  /\ Retryable(srv.retry.errors[4])

\* C40: at most one silence timer is pending and it is the one the timer
\* reference holds; a timer is armed only when the reference is empty, a
\* timer that is cancelled leaves the reference empty, and once the stop
\* handler of a recording has finished the reference is empty, so that a
\* later recording can arm a timer again.
C40_OneSilenceTimer ==
  /\ [](Cardinality(timers) <= 1)
  /\ [](\A t \in timers : t.id = silenceTimeoutRef)
  /\ [][(\E t \in timers' : t.id \notin {u.id : u \in timers}) =>
          silenceTimeoutRef = 0 /\ silenceTimeoutRef' # 0]_vars
  /\ [][(\E t \in timers : t.id \notin {u.id : u \in timers'}) /\ ~TimerFire =>
          silenceTimeoutRef' = 0]_vars
  /\ [][RecorderStopResume => silenceTimeoutRef' = 0]_vars

\* A silence timer has fired and stopped the first recording, and the
\* second recording has armed a timer of its own.
C40_Witness ==
  /\ hist.fired
  /\ \E r \in Recs : recorders[r].by = "-" /\ recorders[r].h = "done"
  /\ \E q \in ActiveRecs : q > 1
  /\ timers # {}
  /\ hist.quiet

====
